---------------------------- MODULE Spec2Model ----------------------------
(***************************************************************************)
(* Model of test-loop.py: a bounded loop that runs an external test        *)
(* command, searches its captured output for "TOTAL: <N> SUCCESS" and      *)
(* exits with status 1 when the line is missing or N is below 2439.        *)
(*                                                                         *)
(* Bytes are integers (their value), text is a sequence of one-character   *)
(* strings.  A printed line is a record; a number formatted into a line is *)
(* kept as the integer that was formatted.                                 *)
(***************************************************************************)
EXTENDS Integers, Sequences, FiniteSets

VARIABLES
    pc,               \* the statement about to execute, "done" after exit
    i,                \* loop variable of line 6; -1 before the first pass
    proc,             \* CompletedProcess of line 9
    stdout,           \* decoded text of line 15
    tests_run_match,  \* result of re.search, line 17
    tests_run,        \* int of line 25
    out,              \* lines printed on standard output, in order
    err,              \* uncaught exception reported on standard error
    exit_status,      \* exit status of the interpreter; -1 while running
    invocations,      \* history: calls of subprocess.run started
    returncode,       \* history: exit status of the latest external command
    n_decoded,        \* history: calls of bytes.decode
    n_searched,       \* history: calls of re.search
    passed            \* history: passes that reached the end of the loop body

vars == << pc, i, proc, stdout, tests_run_match, tests_run, out, err,
           exit_status, invocations, returncode, n_decoded, n_searched, passed >>

-----------------------------------------------------------------------------
(* Program constants *)

max_iterations == 100

expected_tests == 2439

(* Bounds of the model *)

MaxSegs == 2

-----------------------------------------------------------------------------
(* What the external command can write: concatenations of at most MaxSegs  *)
(* of the byte strings below.                                              *)

BTotal == << 84, 79, 84, 65, 76, 58, 32 >>            \* "TOTAL: "

BSuccess == << 32, 83, 85, 67, 67, 69, 83, 83 >>      \* " SUCCESS"

BLo == BTotal \o << 50, 52, 51, 56 >> \o BSuccess     \* "TOTAL: 2438 SUCCESS"

BHi == BTotal \o << 50, 52, 51, 57 >> \o BSuccess     \* "TOTAL: 2439 SUCCESS"

BBig == BTotal \o << 49, 48, 48, 48, 48 >> \o BSuccess \* "TOTAL: 10000 SUCCESS"

Segments ==
    { BLo, BHi, BBig, BTotal, BSuccess,
      << 120 >>,      \* "x"
      << 10 >>,       \* newline
      << 255 >> }     \* a byte that is no UTF-8

RECURSIVE Concats(_)
Concats(n) ==
    IF n = 0 THEN { << >> }
    ELSE LET shorter == Concats(n - 1)
         IN  shorter \cup { s \o g : s \in shorter, g \in Segments }

Outputs == Concats(MaxSegs)

\* exit statuses of the command; a negative one is death by that signal
ReturnCodes == { 0, 1, 2, -9 }

-----------------------------------------------------------------------------
(* bytes.decode(): UTF-8 restricted to the bytes the command writes here   *)

Chr(b) ==
    CASE b = 10 -> "\n"
      [] b = 32 -> " "
      [] b = 48 -> "0"
      [] b = 49 -> "1"
      [] b = 50 -> "2"
      [] b = 51 -> "3"
      [] b = 52 -> "4"
      [] b = 53 -> "5"
      [] b = 54 -> "6"
      [] b = 55 -> "7"
      [] b = 56 -> "8"
      [] b = 57 -> "9"
      [] b = 58 -> ":"
      [] b = 65 -> "A"
      [] b = 67 -> "C"
      [] b = 69 -> "E"
      [] b = 76 -> "L"
      [] b = 79 -> "O"
      [] b = 83 -> "S"
      [] b = 84 -> "T"
      [] b = 85 -> "U"
      [] b = 120 -> "x"

CanDecode(bs) == \A k \in 1..Len(bs) : bs[k] < 128

Decoded(bs) == [ k \in 1..Len(bs) |-> Chr(bs[k]) ]

-----------------------------------------------------------------------------
(* re.search("TOTAL: ([0-9]+) SUCCESS", text)                              *)

PatPrefix == << "T", "O", "T", "A", "L", ":", " " >>

PatSuffix == << " ", "S", "U", "C", "C", "E", "S", "S" >>

Digits == { "0", "1", "2", "3", "4", "5", "6", "7", "8", "9" }

\* the literal lit stands in s at (1-based) position p
LiteralAt(s, p, lit) ==
    /\ p + Len(lit) - 1 <= Len(s)
    /\ \A k \in 1..Len(lit) : s[p + k - 1] = lit[k]

\* number of consecutive characters of [0-9] in s from position p on
RECURSIVE DigitRun(_, _)
DigitRun(s, p) ==
    IF p <= Len(s) /\ s[p] \in Digits THEN 1 + DigitRun(s, p + 1) ELSE 0

NoMatch == [ found |-> FALSE ]

\* the pattern tried at position p: the prefix, then [0-9]+ greedy with
\* backtracking, then the suffix
MatchAt(s, p) ==
    IF ~ LiteralAt(s, p, PatPrefix) THEN NoMatch
    ELSE LET q == p + Len(PatPrefix)
             fits == { d \in 1..DigitRun(s, q) : LiteralAt(s, q + d, PatSuffix) }
         IN  IF fits = { } THEN NoMatch
             ELSE LET d == CHOOSE m \in fits : \A o \in fits : o <= m
                  IN  [ found  |-> TRUE,
                        start  |-> p - 1,
                        end    |-> q + d + Len(PatSuffix) - 1,
                        group1 |-> SubSeq(s, q, q + d - 1) ]

RECURSIVE SearchFrom(_, _)
SearchFrom(s, p) ==
    IF p > Len(s) + 1 THEN NoMatch
    ELSE LET m == MatchAt(s, p)
         IN  IF m.found THEN m ELSE SearchFrom(s, p + 1)

ReSearchAnchored(s) == MatchAt(s, 1)

RECURSIVE SearchBack(_, _)
SearchBack(s, p) ==
    IF p < 1 THEN NoMatch
    ELSE LET m == MatchAt(s, p)
         IN  IF m.found THEN m ELSE SearchBack(s, p - 1)

ReSearchLast(s) == SearchBack(s, Len(s))

ReSearch(s) == SearchFrom(s, 1)

-----------------------------------------------------------------------------
(* int(): a string of decimal digits to its value *)

DigitVal(c) ==
    CASE c = "0" -> 0 [] c = "1" -> 1 [] c = "2" -> 2 [] c = "3" -> 3
      [] c = "4" -> 4 [] c = "5" -> 5 [] c = "6" -> 6 [] c = "7" -> 7
      [] c = "8" -> 8 [] c = "9" -> 9

RECURSIVE IntOf(_)
IntOf(ds) ==
    IF ds = << >> THEN 0
    ELSE 10 * IntOf(SubSeq(ds, 1, Len(ds) - 1)) + DigitVal(ds[Len(ds)])

-----------------------------------------------------------------------------
(* Conditions and printed lines of the loop body *)

RangeHasNextInclusive(n) == n + 1 <= max_iterations

RangeHasNext(n) == n + 1 < max_iterations

CheckIgnored(rc) == FALSE

CheckRaisesOnOne(rc) == rc = 1

\* check=True: subprocess.run raises CalledProcessError on a non-zero status
CheckRaises(rc) == rc # 0

BelowOrEqual(n) == n <= expected_tests

BelowByTwo(n) == n + 1 < expected_tests

Below(n) == n < expected_tests

ProgressLineZeroBased(n) ==
    [ kind |-> "Running test iteration", iteration |-> n, of |-> max_iterations ]

ProgressLine(n) ==
    [ kind |-> "Running test iteration", iteration |-> n + 1, of |-> max_iterations ]

FailedLineOneBased(n) == [ kind |-> "Tests failed on run", run |-> n + 1 ]

FailedLine(n) == [ kind |-> "Tests failed on run", run |-> n ]

OnlyRanLine(n, e) == [ kind |-> "Only ran", ran |-> n, instead_of |-> e ]

TextLine(t) == [ kind |-> "stdout", text |-> t ]

-----------------------------------------------------------------------------
(* The program *)

Init ==
    /\ pc = "for"
    /\ i = -1
    /\ proc = [ returncode |-> 0, stdout |-> << >> ]
    /\ stdout = << >>
    /\ tests_run_match = NoMatch
    /\ tests_run = 0
    /\ out = << >>
    /\ err = "none"
    /\ exit_status = -1
    /\ invocations = 0
    /\ returncode = 0
    /\ n_decoded = 0
    /\ n_searched = 0
    /\ passed = 0

\* line 6: the next value of range(0, max_iterations), or the end of the
\* script.  proc, stdout, tests_run_match and tests_run are each assigned in
\* the pass before they are read, so the values of the pass before are
\* dropped here.
For ==
    /\ pc = "for"
    /\ IF RangeHasNext(i)
       THEN /\ i' = i + 1
            /\ pc' = "print"
            /\ proc' = [ returncode |-> 0, stdout |-> << >> ]
            /\ stdout' = << >>
            /\ tests_run_match' = NoMatch
            /\ tests_run' = 0
            /\ UNCHANGED exit_status
       ELSE /\ pc' = "done"
            /\ exit_status' = 0
            /\ UNCHANGED << i, proc, stdout, tests_run_match, tests_run >>
    /\ UNCHANGED << out, err, invocations, returncode, n_decoded, n_searched,
                    passed >>

\* line 7
PrintProgress ==
    /\ pc = "print"
    /\ out' = Append(out, ProgressLine(i))
    /\ pc' = "run"
    /\ UNCHANGED << i, proc, stdout, tests_run_match, tests_run, err,
                    exit_status, invocations, returncode, n_decoded,
                    n_searched, passed >>

\* lines 9-14: the command runs to its end, with exit status rc and the
\* bytes b on its standard output
RunCommand ==
    /\ pc = "run"
    /\ \E rc \in ReturnCodes, b \in Outputs :
          /\ invocations' = invocations + 1
          /\ returncode' = rc
          /\ IF CheckRaises(rc)
             THEN /\ err' = "CalledProcessError"
                  /\ exit_status' = 1
                  /\ pc' = "done"
                  /\ UNCHANGED proc
             ELSE /\ proc' = [ returncode |-> rc, stdout |-> b ]
                  /\ pc' = "decode"
                  /\ UNCHANGED << err, exit_status >>
    /\ UNCHANGED << i, stdout, tests_run_match, tests_run, out, n_decoded,
                    n_searched, passed >>

\* line 15
Decode ==
    /\ pc = "decode"
    /\ n_decoded' = n_decoded + 1
    /\ IF CanDecode(proc.stdout)
       THEN /\ stdout' = Decoded(proc.stdout)
            /\ pc' = "search"
            /\ UNCHANGED << err, exit_status >>
       ELSE /\ err' = "UnicodeDecodeError"
            /\ exit_status' = 1
            /\ pc' = "done"
            /\ UNCHANGED stdout
    /\ UNCHANGED << i, proc, tests_run_match, tests_run, out, invocations,
                    returncode, n_searched, passed >>

\* line 17
Search ==
    /\ pc = "search"
    /\ tests_run_match' = ReSearch(stdout)
    /\ n_searched' = n_searched + 1
    /\ pc' = "if_match"
    /\ UNCHANGED << i, proc, stdout, tests_run, out, err, exit_status,
                    invocations, returncode, n_decoded, passed >>

\* lines 19-22
IfNotMatch ==
    /\ pc = "if_match"
    /\ IF ~ tests_run_match.found
       THEN /\ out' = out \o << FailedLine(i), TextLine(stdout) >>
            /\ exit_status' = 1
            /\ pc' = "done"
       ELSE /\ pc' = "compare"
            /\ UNCHANGED << out, exit_status >>
    /\ UNCHANGED << i, proc, stdout, tests_run_match, tests_run, err,
                    invocations, returncode, n_decoded, n_searched, passed >>

\* lines 24-29
Compare ==
    /\ pc = "compare"
    /\ tests_run' = IntOf(tests_run_match.group1)
    /\ IF Below(tests_run')
       THEN /\ out' = out \o << OnlyRanLine(tests_run', expected_tests),
                                TextLine(stdout) >>
            /\ exit_status' = 1
            /\ pc' = "done"
            /\ UNCHANGED passed
       ELSE /\ pc' = "for"
            /\ passed' = passed + 1
            /\ UNCHANGED << out, exit_status >>
    /\ UNCHANGED << i, proc, stdout, tests_run_match, err, invocations,
                    returncode, n_decoded, n_searched >>

Next ==
    \/ For
    \/ PrintProgress
    \/ RunCommand
    \/ Decode
    \/ Search
    \/ IfNotMatch
    \/ Compare

Spec == Init /\ [][Next]_vars

-----------------------------------------------------------------------------
(* Vocabulary of the properties, stated on the text and the console and    *)
(* not through the matcher above.                                          *)

RECURSIVE Pow10(_)
Pow10(n) == IF n = 0 THEN 1 ELSE 10 * Pow10(n - 1)

RECURSIVE NumeralSum(_, _)
NumeralSum(ds, k) ==
    IF k > Len(ds) THEN 0
    ELSE DigitVal(ds[k]) * Pow10(Len(ds) - k) + NumeralSum(ds, k + 1)

\* the value of a decimal numeral
Numeral(ds) == NumeralSum(ds, 1)

\* the positions of s where "TOTAL: " stands
PrefixStarts(s) ==
    { p \in 1..Len(s) :
        /\ p + Len(PatPrefix) - 1 <= Len(s)
        /\ SubSeq(s, p, p + Len(PatPrefix) - 1) = PatPrefix }

\* "TOTAL: " ++ d digits ++ " SUCCESS" is the substring of s at position p
OccurrenceAt(s, p, d) ==
    LET q == p + Len(PatPrefix)
    IN  /\ q + d + Len(PatSuffix) - 1 <= Len(s)
        /\ \A k \in q..(q + d - 1) : s[k] \in Digits
        /\ SubSeq(s, q + d, q + d + Len(PatSuffix) - 1) = PatSuffix

\* the occurrences of the pattern in s, each << position, number of digits >>
Occurrences(s) ==
    { o \in PrefixStarts(s) \X (1..Len(s)) : OccurrenceAt(s, o[1], o[2]) }

CountOf(s, o) ==
    Numeral(SubSeq(s, o[1] + Len(PatPrefix), o[1] + Len(PatPrefix) + o[2] - 1))

First(occ) == CHOOSE o \in occ : \A o2 \in occ : o[1] <= o2[1]

\* the occurrence is a line of its own: line start or newline before it,
\* line end or newline after it
WholeLine(s, o) ==
    LET last == o[1] + Len(PatPrefix) + o[2] + Len(PatSuffix) - 1
    IN  /\ (o[1] = 1 \/ s[o[1] - 1] = "\n")
        /\ (last = Len(s) \/ s[last + 1] = "\n")

IsProgress(l) == l.kind = "Running test iteration"

NotProgress(l) == ~ IsProgress(l)

ProgressCount == Cardinality({ k \in 1..Len(out) : IsProgress(out[k]) })

\* the lines printed that are no progress lines
Diagnostic == SelectSeq(out, NotProgress)

MissingReported ==
    \E k \in 1..Len(out) : out[k].kind = "Tests failed on run"

BelowReported ==
    \E k \in 1..Len(out) : out[k].kind = "Only ran"

\* the run has failed: an uncaught exception or a failure diagnostic
RunFailed == err # "none" \/ MissingReported \/ BelowReported

\* pass i went through the whole loop body: the loop is back at its head, or
\* the script has ended normally
ClassifiedSuccess ==
    \/ pc = "for" /\ i >= 0
    \/ pc = "done" /\ exit_status = 0

\* pass i ended in one of the two sys.exit(1)
ClassifierFailure == pc = "done" /\ exit_status # 0 /\ err = "none"

\* stdout is the text of pass i and its classification is over
Classified == ClassifiedSuccess \/ ClassifierFailure

-----------------------------------------------------------------------------
\* C1: the command is invoked at most max_iterations times; a failed run
\* (non-zero exit status of the command, missing pattern or low count) is
\* over with exit status 1, its failing pass is the latest one started, and
\* no step after the failure invokes the command again.
C1_BoundedAndFailureIsLast ==
    [][ /\ invocations' <= max_iterations
        /\ RunFailed => invocations' = invocations
        /\ RunFailed' => ( /\ pc' = "done"
                           /\ exit_status' = 1
                           /\ invocations' = i' + 1 ) ]_vars

C1_Witness ==
    /\ RunFailed
    /\ pc = "done"
    /\ invocations = 3
    /\ passed = 2

\* C2: the exit status is 0 or 1; it is 0 exactly when max_iterations passes
\* completed, and a pass completes only with the command's exit status 0,
\* the pattern in the text and the count of its first occurrence at least
\* expected_tests; it is 1 on a failure diagnostic and on a non-zero status
\* of the command.
C2_ExitStatus ==
    /\ pc = "done" =>
          /\ exit_status \in { 0, 1 }
          /\ exit_status = 0 <=>
                (passed = max_iterations /\ invocations = max_iterations /\ ~ RunFailed)
          /\ (MissingReported \/ BelowReported \/ returncode # 0) => exit_status = 1
    /\ ClassifiedSuccess =>
          LET occ == Occurrences(stdout)
          IN  /\ passed = i + 1
              /\ returncode = 0
              /\ occ # { }
              /\ CountOf(stdout, First(occ)) >= expected_tests

C2_Witness ==
    /\ pc = "done"
    /\ exit_status = 0
    /\ passed = max_iterations
    /\ Len(out) = max_iterations

\* C3: when the command of pass i+1 ends with a non-zero status the script
\* is over with an uncaught CalledProcessError and exit status 1: the output
\* of that pass was neither decoded nor searched (only the i passes before
\* were), nothing was printed after its progress line, the command ran
\* once in it and no later pass started.
C3_NonZeroExitAborts ==
    returncode # 0 =>
        /\ pc = "done"
        /\ err = "CalledProcessError"
        /\ exit_status = 1
        /\ n_decoded = i
        /\ n_searched = i
        /\ passed = i
        /\ invocations = i + 1
        /\ Len(out) = i + 1
        /\ out[Len(out)] =
             [ kind |-> "Running test iteration", iteration |-> i + 1,
               of |-> max_iterations ]

C3_Witness ==
    /\ returncode = 2
    /\ pc = "done"
    /\ err = "CalledProcessError"
    /\ i = 2
    /\ n_decoded = 2

\* C4 as stated: a text with some occurrence of the pattern whose count is
\* at least expected_tests is classified as success, whatever else it holds.
C4_AnyOccurrenceAtThresholdSucceeds ==
    ( /\ Classified
      /\ \E o \in Occurrences(stdout) : CountOf(stdout, o) >= expected_tests )
    => ClassifiedSuccess

\* C4 amended: a text whose first occurrence of the pattern has a count of
\* at least expected_tests is classified as success (the loop goes on or the
\* script ends with status 0, no diagnostic printed), whatever follows it.
C4_FirstOccurrenceAtThresholdSucceeds ==
    Classified =>
        LET occ == Occurrences(stdout)
        IN  ( occ # { } /\ CountOf(stdout, First(occ)) >= expected_tests )
            => ( ClassifiedSuccess /\ Diagnostic = << >> /\ exit_status # 1 )

C4_Witness ==
    /\ ClassifiedSuccess
    /\ LET occ == Occurrences(stdout)
       IN  /\ Cardinality(occ) = 2
           /\ CountOf(stdout, First(occ)) = expected_tests
           /\ \E o \in occ : CountOf(stdout, o) < expected_tests

\* C5 as stated: a text with some occurrence of the pattern whose count N is
\* below expected_tests is classified as failure, N and expected_tests
\* reported, exit status 1.
C5_AnyOccurrenceBelowThresholdFails ==
    Classified =>
        \A o \in Occurrences(stdout) :
            CountOf(stdout, o) < expected_tests =>
                /\ ClassifierFailure
                /\ exit_status = 1
                /\ Diagnostic # << >>
                /\ Diagnostic[1] =
                     [ kind |-> "Only ran", ran |-> CountOf(stdout, o),
                       instead_of |-> expected_tests ]

\* C5 amended: a text whose first occurrence of the pattern has a count N
\* below expected_tests is classified as failure: "Only ran N instead of
\* expected_tests" and the text are printed and the exit status is 1.
C5_FirstOccurrenceBelowThresholdFails ==
    Classified =>
        LET occ == Occurrences(stdout)
        IN  ( occ # { } /\ CountOf(stdout, First(occ)) < expected_tests )
            => /\ ClassifierFailure
               /\ exit_status = 1
               /\ Diagnostic =
                    << [ kind |-> "Only ran", ran |-> CountOf(stdout, First(occ)),
                         instead_of |-> expected_tests ],
                       [ kind |-> "stdout", text |-> stdout ] >>

C5_Witness ==
    /\ ClassifierFailure
    /\ BelowReported
    /\ LET occ == Occurrences(stdout)
       IN  /\ Cardinality(occ) = 2
           /\ CountOf(stdout, First(occ)) = expected_tests - 1
           /\ \E o \in occ : CountOf(stdout, o) > expected_tests

\* C6 as stated: a text none of whose lines is "TOTAL: <N> SUCCESS" is
\* classified as failure with the pattern-missing diagnostic and exit status
\* 1; an occurrence with other characters on its line is no match.
C6_NoWholeLineIsMissing ==
    ( /\ Classified
      /\ \A o \in Occurrences(stdout) : ~ WholeLine(stdout, o) )
    => /\ ClassifierFailure
       /\ exit_status = 1
       /\ MissingReported

\* C6 amended: a text in which "TOTAL: <N> SUCCESS" occurs nowhere, not even
\* inside a longer line, is classified as failure with the pattern-missing
\* diagnostic and exit status 1; a text in which it occurs, alone on a line
\* or with other characters around it, is never reported as pattern-missing.
C6_NoOccurrenceIsMissing ==
    Classified =>
        LET occ == Occurrences(stdout)
        IN  /\ occ = { } =>
                  /\ ClassifierFailure
                  /\ exit_status = 1
                  /\ Diagnostic =
                       << [ kind |-> "Tests failed on run", run |-> i ],
                          [ kind |-> "stdout", text |-> stdout ] >>
            /\ occ # { } => ~ MissingReported

C6_Witness ==
    /\ ClassifierFailure
    /\ MissingReported
    /\ Occurrences(stdout) = { }
    /\ PrefixStarts(stdout) # { }
    /\ \E p \in 1..Len(stdout) : LiteralAt(stdout, p, PatSuffix)

\* C7: on a classifier failure of either kind the lines printed for the
\* failure hold the index of the failing pass and the whole captured text,
\* and the exit status is not 0.
C7_FailurePrintsIndexAndOutput ==
    ClassifierFailure =>
        /\ exit_status # 0
        /\ \E k \in 1..Len(Diagnostic) :
              Diagnostic[k] = [ kind |-> "stdout", text |-> stdout ]
        /\ \E k \in 1..Len(Diagnostic) :
              /\ Diagnostic[k].kind = "Tests failed on run"
              /\ Diagnostic[k].run \in { i, i + 1 }

\* C8 as stated: at any point the number of progress lines printed equals
\* the number of invocations started, and the lines are numbered 1, 2, 3,
\* ... of max_iterations in order.
C8_ProgressLinesEqualInvocations ==
    /\ ProgressCount = invocations
    /\ \A k \in 1..Len(out) :
          IsProgress(out[k]) => ( out[k].iteration = k /\ out[k].of = max_iterations )

\* C8 amended: the progress lines are the first lines printed and are
\* numbered 1, 2, 3, ... of max_iterations in order; when the command is
\* about to be invoked the line printed last is the progress line of that
\* invocation, and the number of progress lines is then one more than the
\* number of invocations started; at any other point the two are equal.
C8_ProgressLinePrecedesInvocation ==
    /\ \A k \in 1..Len(out) :
          IsProgress(out[k]) => ( out[k].iteration = k /\ out[k].of = max_iterations )
    /\ \A k \in 1..Len(out) : k <= invocations => IsProgress(out[k])
    /\ pc = "run" =>
          /\ Len(out) = invocations + 1
          /\ IsProgress(out[Len(out)])
          /\ ProgressCount = invocations + 1
    /\ pc # "run" => ProgressCount = invocations

C8_Witness ==
    /\ pc = "run"
    /\ invocations = 2
    /\ ProgressCount = 3
    /\ out[Len(out)].iteration = 3

\* C9: when the pattern occurs more than once in the text of a pass, the
\* match is the first occurrence and the pass succeeds exactly when the
\* count of the first occurrence is at least expected_tests.
C9_FirstOccurrenceDecides ==
    Classified =>
        LET occ == Occurrences(stdout)
        IN  Cardinality(occ) >= 2 =>
              /\ tests_run_match.found
              /\ tests_run_match.start = First(occ)[1] - 1
              /\ Numeral(tests_run_match.group1) = CountOf(stdout, First(occ))
              /\ ClassifiedSuccess <=> CountOf(stdout, First(occ)) >= expected_tests

C9_Witness ==
    /\ ClassifierFailure
    /\ tests_run = expected_tests - 1
    /\ LET occ == Occurrences(stdout)
       IN  /\ Cardinality(occ) >= 2
           /\ \E o \in occ : CountOf(stdout, o) = expected_tests

\* C10: the run number of "Tests failed on run <r>" is the loop counter: the
\* number of passes completed before, and one less than the number in the
\* progress line printed for the same pass.
C10_FailedRunIsZeroBased ==
    \A k \in 1..Len(out) :
        out[k].kind = "Tests failed on run" =>
            /\ out[k].run = i
            /\ out[k].run = passed
            /\ k > 1
            /\ IsProgress(out[k - 1])
            /\ out[k - 1].iteration = out[k].run + 1

C10_Witness ==
    /\ MissingReported
    /\ Len(out) = 3
    /\ out[1].iteration = 1
    /\ out[2].run = 0

=============================================================================
